---- MODULE Spec2Model ----
(***************************************************************************)
(* Model of python/prepare.py (the CID preparer of LooPyGen): ID           *)
(* extraction and assignment, the semaphore-bounded CID batch, and the     *)
(* manifest / metadata-merge writers.                                      *)
(* Strings are sequences of one-character strings.                         *)
(***************************************************************************)
EXTENDS Integers, Sequences, FiniteSets, TLC

VARIABLES
    pc,           \* position of main()
    args,         \* parsed command line: metadata, overwrite, royalty_percentage
    ids,          \* the list ids (lines 109, 111, 114)
    input_files,  \* the list input_files (lines 101-106, 114)
    task,         \* per sem_task: "waiting", "running", "done", "failed", "dropped"
    results,      \* per sem_task: value the task returned (<<>> while it has none)
    codes,        \* proc.returncode of the subprocesses that have exited
    sem,          \* value of the asyncio.Semaphore
    orphans,      \* subprocesses left running by cancelled tasks
    error,        \* "none" or the exception that ended main()
    cids,         \* the list returned by get_files_cids
    fs,           \* metadata directory: file name -> content
    fs0,          \* the metadata directory as the current run found it
    manifest,     \* content of metadata-cids.json
    k,            \* number of iterations of the metadata loop done
    last,         \* record of the latest metadata-loop iteration
    runs          \* number of runs of main() started

vars == <<pc, args, ids, input_files, task, results, codes, sem, orphans,
          error, cids, fs, fs0, manifest, k, last, runs>>

----------------------------------------------------------------------------
(* Bounds *)
MaxFiles == 3
MaxBatch == 17

----------------------------------------------------------------------------
(* Strings *)
Digits == {"0", "1", "2", "3", "4", "5", "6", "7", "8", "9"}

DigitVal(c) ==
    CASE c = "0" -> 0 [] c = "1" -> 1 [] c = "2" -> 2 [] c = "3" -> 3
      [] c = "4" -> 4 [] c = "5" -> 5 [] c = "6" -> 6 [] c = "7" -> 7
      [] c = "8" -> 8 [] c = "9" -> 9

\* Code points of the characters that occur in the modelled file names.
CharCode(c) ==
    CASE c = "." -> 46
      [] c \in Digits -> 48 + DigitVal(c)
      [] c = "a" -> 97  [] c = "b" -> 98  [] c = "f" -> 102 [] c = "g" -> 103
      [] c = "i" -> 105 [] c = "j" -> 106 [] c = "m" -> 109 [] c = "n" -> 110
      [] c = "o" -> 111 [] c = "p" -> 112 [] c = "r" -> 114 [] c = "s" -> 115
      [] c = "t" -> 116

\* Python's str < str: lexicographic by code point, a proper prefix is smaller.
RECURSIVE StrLess(_, _)
StrLess(a, b) ==
    IF b = <<>> THEN FALSE
    ELSE IF a = <<>> THEN TRUE
    ELSE IF Head(a) = Head(b) THEN StrLess(Tail(a), Tail(b))
    ELSE CharCode(Head(a)) < CharCode(Head(b))

IsDigit(c) == c \in Digits

\* int(s) for a string of decimal digits (leading zeros allowed).
RECURSIVE ParseInt(_)
ParseInt(s) ==
    IF s = <<>> THEN 0
    ELSE 10 * ParseInt(SubSeq(s, 1, Len(s) - 1)) + DigitVal(s[Len(s)])

\* int('0' + ''.join(filter(str.isdigit, f)))
ExtractId(f) == ParseInt(<<"0">> \o SelectSeq(f, IsDigit))

RECURSIVE MaxOf(_)
MaxOf(s) ==
    IF Len(s) = 1 THEN s[1]
    ELSE LET m == MaxOf(Tail(s)) IN IF s[1] > m THEN s[1] ELSE m

\* Bug variant: every file without an ID gets max(ids) + 1.
AssignIdsNoOffset(parsed) ==
    [n \in 1..Len(parsed) |->
        IF parsed[n] = 0 THEN MaxOf(parsed) + 1 ELSE parsed[n]]

\* [max(ids) + 1 + i if v == 0 else v for i, v in enumerate(ids)]
AssignIds(parsed) ==
    [n \in 1..Len(parsed) |->
        IF parsed[n] = 0 THEN MaxOf(parsed) + 1 + (n - 1) ELSE parsed[n]]

\* Tuple comparison of (id, file) pairs.
PairLess(p, q) == p[1] < q[1] \/ (p[1] = q[1] /\ StrLess(p[2], q[2]))

RECURSIVE Insert(_, _)
Insert(p, s) ==
    IF s = <<>> THEN <<p>>
    ELSE IF PairLess(s[1], p) THEN <<s[1]>> \o Insert(p, Tail(s))
    ELSE <<p>> \o s

\* sorted(zip(ids, input_files))
RECURSIVE Sorted(_)
Sorted(s) == IF s = <<>> THEN <<>> ELSE Insert(s[1], Sorted(Tail(s)))

Zip(a, b) == [n \in 1..Len(a) |-> <<a[n], b[n]>>]

----------------------------------------------------------------------------
(* Input discovery (main, lines 100-106) *)

RECURSIVE LastDot(_)
\* str.rfind('.') as a 1-based index, 0 when there is no dot.
LastDot(f) ==
    IF f = <<>> THEN 0
    ELSE IF f[Len(f)] = "." THEN Len(f)
    ELSE LastDot(SubSeq(f, 1, Len(f) - 1))

\* os.path.splitext on a base name: the extension starts at the last dot,
\* unless only dots precede it.
SplitAt(f) ==
    LET d == LastDot(f)
    IN  IF d > 0 /\ \E n \in 1..(d - 1) : f[n] # "." THEN d ELSE Len(f) + 1

SplitExtRoot(f) == SubSeq(f, 1, SplitAt(f) - 1)
SplitExtExt(f) == SubSeq(f, SplitAt(f), Len(f))

\* glob pattern '*.json' (file_filter without --metadata); '*' matches all.
EndsWithJson(f) ==
    Len(f) >= 5 /\ SubSeq(f, Len(f) - 4, Len(f)) = <<".", "j", "s", "o", "n">>

GlobMatch(metadata, f) == metadata \/ EndsWithJson(f)

\* len(os.path.splitext(f)[-1]) <= 5
MaxExtLen == 5
KeepFile(f) == Len(SplitExtExt(f)) <= MaxExtLen

\* lines 101-106
Discover(a, dirlist) ==
    IF a.file THEN dirlist
    ELSE SelectSeq(SelectSeq(dirlist, LAMBDA f : GlobMatch(a.metadata, f)), KeepFile)

----------------------------------------------------------------------------
(* ID assignment and sorting (main, lines 108-114) *)

ExtractIds ==
    /\ pc = "extract"
    /\ ids' = [n \in 1..Len(input_files) |-> ExtractId(input_files[n])]
    /\ pc' = "assign"
    /\ UNCHANGED <<args, input_files, task, results, sem,
                   orphans, error, cids, fs, manifest, k, last, fs0, runs, codes>>

AssignStep ==
    /\ pc = "assign"
    /\ ids' = AssignIds(ids)
    /\ pc' = "sort"
    /\ UNCHANGED <<args, input_files, task, results, sem,
                   orphans, error, cids, fs, manifest, k, last, fs0, runs, codes>>

\* ids, input_files = list(zip(*sorted(zip(ids, input_files)))): unpacking the
\* empty list raises ValueError.
SortStep ==
    /\ pc = "sort"
    /\ IF input_files = <<>>
       THEN /\ error' = [type |-> "ValueError", path |-> <<>>, code |-> 0, stderr |-> <<>>]
            /\ pc' = "aborted"
            /\ UNCHANGED <<ids, input_files>>
       ELSE LET z == Sorted(Zip(ids, input_files))
            IN  /\ ids' = [n \in 1..Len(z) |-> z[n][1]]
                /\ input_files' = [n \in 1..Len(z) |-> z[n][2]]
                /\ pc' = "cids"
                /\ UNCHANGED error
    /\ UNCHANGED <<args, task, results, sem, orphans, cids, fs, manifest, k,
                   last, fs0, runs, codes>>

----------------------------------------------------------------------------
(* Paths and the external cid tool *)

InputDir == <<"d">>

\* os.path.join(cfg.input_dir, file)
JoinPath(dir, file) == dir \o <<"/">> \o file

\* What `cid --cid-version=0 "<path>"` prints for a readable file: the
\* identifier of the file followed by a newline.  Distinct files of the model
\* have distinct contents, hence distinct identifiers.
ToolStdout(path) == <<"Qm">> \o path \o <<"\n">>

\* What the tool prints on standard error when it fails on a file.
ToolStderr(path) == <<"cid: cannot read ">> \o path

Whitespace == {" ", "\n", "\t"}

\* str.strip()
RECURSIVE LStrip(_)
LStrip(s) ==
    IF s # <<>> /\ Head(s) \in Whitespace THEN LStrip(Tail(s)) ELSE s

RECURSIVE RStrip(_)
RStrip(s) ==
    IF s # <<>> /\ s[Len(s)] \in Whitespace
    THEN RStrip(SubSeq(s, 1, Len(s) - 1)) ELSE s

Strip(s) == RStrip(LStrip(s))

\* asyncio.Semaphore(16)
SemaphoreLimit == 16

\* Values of proc.returncode: an exit status (0, or 1 standing for every
\* non-zero status), or -N when signal N ended the subprocess.
ExitStatuses == {0, 1}
ReturnCodes == ExitStatuses \cup {-9}

\* What proc.communicate() has read from standard output: the tool's whole
\* output when it exited with status 0; nothing or the whole output when a
\* signal ended it; nothing when it failed.
Stdouts(path, rc) ==
    IF rc = 0 THEN {ToolStdout(path)}
    ELSE IF rc < 0 THEN {<<>>, ToolStdout(path)}
    ELSE {<<>>}

\* proc.returncode is None until the subprocess has exited: codes is a
\* function from the tasks whose subprocess has exited to its return code.
NoCodes == [i \in {} |-> 0]
SetCode(c, i, rc) == [j \in (DOMAIN c) \cup {i} |-> IF j = i THEN rc ELSE c[j]]

\* Bug variant: exit status 1 is taken for success.
IsFailureAboveOne(rc) == rc > 1

\* proc.returncode > 0
IsFailure(rc) == rc > 0

\* [os.path.join(cfg.input_dir, file) for file in input_files][i-1]
PathOf(i) == JoinPath(InputDir, input_files[i])

\* The tasks of the gather, by index.
Tasks == 1..Len(task)

Running == {i \in Tasks : task[i] = "running"}

\* Subprocesses started and not yet exited.
Outstanding == Cardinality(Running) + orphans

\* The task the semaphore admits next: asyncio.Semaphore serves waiters in
\* arrival order, and the tasks of a gather arrive in list order.
Waiting == {i \in Tasks : task[i] = "waiting"}
FirstWaiting == CHOOSE i \in Waiting : \A j \in Waiting : i <= j

----------------------------------------------------------------------------
(* get_files_cids *)

\* asyncio.run(get_files_cids([...])): semaphore and one sem_task per path.
StartBatch ==
    /\ pc = "cids"
    /\ task' = [n \in 1..Len(input_files) |-> "waiting"]
    /\ results' = [n \in 1..Len(input_files) |-> <<>>]
    /\ codes' = NoCodes
    /\ sem' = SemaphoreLimit
    /\ pc' = "gather"
    /\ UNCHANGED <<args, ids, input_files, orphans, error, cids,
                   fs, manifest, k, last, fs0, runs>>

\* Bug variant: the semaphore admits one task too many.
CanAcquireAtZero(value) == value >= 0

\* `async with semaphore`: a slot is free when the value is positive.
CanAcquire(value) == value > 0

\* sem_task: `async with semaphore` is entered and get_file_cid starts the
\* subprocess.
Admit ==
    /\ pc = "gather"
    /\ Waiting # {}
    /\ CanAcquire(sem)
    /\ sem' = sem - 1
    /\ task' = [task EXCEPT ![FirstWaiting] = "running"]
    /\ UNCHANGED <<pc, args, ids, input_files, results,
                   orphans, error, cids, fs, manifest, k, last, fs0, runs, codes>>

\* get_file_cid after proc.communicate(): the subprocess of task i has ended
\* with return code rc and standard output out.
\* rc > 0: RuntimeError; leaving `async with` releases the semaphore, which
\* lets the first waiter start its subprocess; gather re-raises in
\* get_files_cids and asyncio.run cancels every task that is left and drops
\* them all.  Subprocesses of cancelled tasks are not waited for.
\* Otherwise the task returns stdout.decode().strip() and releases.
Exit(i, rc, out) ==
    /\ pc = "gather"
    /\ task[i] = "running"
    /\ IF IsFailure(rc)
       THEN /\ orphans' = Cardinality(Running \ {i})
                          + (IF Waiting # {} THEN 1 ELSE 0)
            /\ task' = [n \in Tasks |-> IF n = i THEN "failed" ELSE "dropped"]
            /\ results' = [n \in Tasks |-> <<>>]
            /\ sem' = SemaphoreLimit
            /\ codes' = SetCode(NoCodes, i, rc)
            /\ error' = [type |-> "RuntimeError", path |-> PathOf(i), code |-> rc,
                         stderr |-> ToolStderr(PathOf(i))]
            /\ pc' = "aborted"
       ELSE /\ results' = [results EXCEPT ![i] = Strip(out)]
            /\ task' = [task EXCEPT ![i] = "done"]
            /\ codes' = SetCode(codes, i, rc)
            /\ sem' = sem + 1
            /\ UNCHANGED <<pc, orphans, error>>
    /\ UNCHANGED <<args, ids, input_files, cids, fs,
                   manifest, k, last, fs0, runs>>

\* Bug variant: the results come back in another order than the arguments.
GatherReversed(res) == [n \in 1..Len(res) |-> res[Len(res) + 1 - n]]

\* asyncio.gather returns the results in the order of its arguments.
Gather(res) == res

ReturnCids ==
    /\ pc = "gather"
    /\ \A i \in Tasks : task[i] = "done"
    /\ cids' = Gather(results)
    /\ pc' = "write"
    /\ UNCHANGED <<args, ids, input_files, task, results,
                   sem, orphans, error, fs, manifest, k, last, fs0, runs, codes>>

----------------------------------------------------------------------------
(* JSON documents and files of the metadata directory *)

\* A JSON value is [t, v]: t its type, v its text (a sequence of characters
\* and of longer literal pieces).  A JSON object (a Python
\* dict, which keeps insertion order) is a sequence of [key, val] items.
JStr(chars) == [t |-> "str", v |-> chars]
JInt(digits) == [t |-> "int", v |-> digits]
JEmptyList == [t |-> "list", v |-> <<"[", "]">>]
JEmptyDict == [t |-> "dict", v |-> <<"{", "}">>]

Keys(doc) == {doc[n].key : n \in 1..Len(doc)}

\* token[key] = val
SetKey(doc, key, val) ==
    IF key \in Keys(doc)
    THEN [n \in 1..Len(doc) |->
            IF doc[n].key = key THEN [key |-> key, val |-> val] ELSE doc[n]]
    ELSE Append(doc, [key |-> key, val |-> val])

\* token[key], for a key of the document
GetKey(doc, key) == doc[CHOOSE n \in 1..Len(doc) : doc[n].key = key].val

\* Content of a file: absent, bytes json.load rejects (JSONDecodeError), or
\* JSON text.  fmt tells whether the text is what json.dump(indent=4) prints
\* for doc; top tells whether the top-level JSON value is an object.
Missing == [kind |-> "missing", fmt |-> "-", top |-> "-", doc |-> <<>>]
Invalid == [kind |-> "invalid", fmt |-> "-", top |-> "-", doc |-> <<>>]
JsonFile(fmt, top, doc) == [kind |-> "json", fmt |-> fmt, top |-> top, doc |-> doc]

\* json.dump(token, f, indent=4) of a dict
Dump(token) == JsonFile("indent4", "object", token)

CharOf(d) ==
    CASE d = 0 -> "0" [] d = 1 -> "1" [] d = 2 -> "2" [] d = 3 -> "3"
      [] d = 4 -> "4" [] d = 5 -> "5" [] d = 6 -> "6" [] d = 7 -> "7"
      [] d = 8 -> "8" [] d = 9 -> "9"

\* str(n) for n >= 0
RECURSIVE DecStr(_)
DecStr(n) == IF n < 10 THEN <<CharOf(n)>> ELSE DecStr(n \div 10) \o <<CharOf(n % 10)>>

\* f"{id:03}"
RECURSIVE ZeroPad(_, _)
ZeroPad(s, width) == IF Len(s) >= width THEN s ELSE ZeroPad(<<"0">> \o s, width)
IdWidth == 3
FormatId(id) == ZeroPad(DecStr(id), IdWidth)

\* os.path.join('ipfs://', cid)
IpfsUrl(cid) ==
    IF cid # <<>> /\ Head(cid) = "/" THEN cid
    ELSE <<"ipfs://">> \o cid

\* The template of lines 144-151.
Template(id, cid) ==
    << [key |-> "image", val |-> JStr(IpfsUrl(cid))],
       [key |-> "animation_url", val |-> JStr(IpfsUrl(cid))],
       [key |-> "name", val |-> JStr(<<"COLLECTION_NAME #">> \o FormatId(id))],
       [key |-> "description", val |-> JStr(<<"COLLECTION_DESCRIPTION">>)],
       [key |-> "attributes", val |-> JEmptyList],
       [key |-> "properties", val |-> JEmptyDict] >>

\* Bug variant: the update also resets the name to the template's.
UpdateCidFieldsAndName(token, cid, royalty) ==
    SetKey(SetKey(SetKey(SetKey(token, "image", JStr(IpfsUrl(cid))),
                         "animation_url", JStr(IpfsUrl(cid))),
                  "royalty_percentage", JInt(DecStr(royalty))),
           "name", JStr(<<"COLLECTION_NAME">>))

\* Lines 153-156.
UpdateCidFields(token, cid, royalty) ==
    SetKey(SetKey(SetKey(token, "image", JStr(IpfsUrl(cid))),
                  "animation_url", JStr(IpfsUrl(cid))),
           "royalty_percentage", JInt(DecStr(royalty)))

\* os.path.splitext(file)[0] + '.json'
JsonFileName(file) == SplitExtRoot(file) \o <<".", "j", "s", "o", "n">>
BakName(name) == name \o <<".", "b", "a", "k">>

Min(a, b) == IF a < b THEN a ELSE b

\* `not args.overwrite and os.path.exists(json_path)` and json.load succeeded
LoadsExisting(overwrite, content) ==
    ~overwrite /\ content.kind = "json"

\* copy2(json_path, json_path + ".bak")
Backup(files, path) == [files EXCEPT ![BakName(path)] = files[path]]

\* with open(json_path, 'w+') as f: json.dump(token, f, indent=4)
WriteJson(files, path, token) == [files EXCEPT ![path] = Dump(token)]

\* Bug variant: the backup is taken after the document is written.
PersistStepBackupLate(files, path, from_scratch, token) ==
    IF from_scratch /\ files[path].kind # "missing"
    THEN Backup(WriteJson(files, path, token), path)
    ELSE WriteJson(files, path, token)

\* Lines 137-159: the backup of an existing file when the document is built
\* from the template, then the write of the document.
PersistStep(files, path, from_scratch, token) ==
    WriteJson(IF from_scratch /\ files[path].kind # "missing"
              THEN Backup(files, path) ELSE files,
              path, token)

----------------------------------------------------------------------------
(* Writers (main, lines 119-166) *)

NoStep == [n |-> 0, file |-> <<>>, path |-> <<>>, branch |-> "none",
           pre |-> Missing, preBak |-> Missing, cid |-> <<>>, id |-> 0]

\* One iteration of the loop of lines 121-159, for the (k+1)-th triple.
MergeStep ==
    /\ pc = "write"
    /\ args.metadata
    /\ LET total == Min(Len(ids), Min(Len(cids), Len(input_files)))
           n == k + 1
           id == ids[n]
           cid == cids[n]
           file == input_files[n]
           path == JsonFileName(file)
           old == fs[path]
           from_scratch == ~LoadsExisting(args.overwrite, old)
           token == IF from_scratch THEN Template(id, cid) ELSE old.doc
           step == [n |-> n, file |-> file, path |-> path,
                    branch |-> IF from_scratch THEN "create" ELSE "update",
                    pre |-> old, preBak |-> fs[BakName(path)],
                    cid |-> cid, id |-> id]
       IN  /\ n <= total
           /\ last' = step
           /\ IF ~from_scratch /\ old.top # "object"
              THEN \* token['image'] = ... on a list, str, number or None
                   /\ error' = [type |-> "TypeError", path |-> path, code |-> 0, stderr |-> <<>>]
                   /\ pc' = "aborted"
                   /\ UNCHANGED <<fs, k>>
              ELSE /\ fs' = PersistStep(fs, path, from_scratch,
                                      UpdateCidFields(token, cid, args.royalty))
                   /\ k' = n
                   /\ pc' = IF n = total THEN "done" ELSE "write"
                   /\ UNCHANGED error
    /\ UNCHANGED <<args, ids, input_files, task, results,
                   sem, orphans, cids, manifest, fs0, runs, codes>>

\* Lines 162-166: [{'ID': i, 'CID': c} for i, c in zip(ids, cids)]
WriteManifest ==
    /\ pc = "write"
    /\ ~args.metadata
    /\ manifest' = [written |-> TRUE,
                    entries |-> [n \in 1..Min(Len(ids), Len(cids)) |->
                                   [ID |-> ids[n], CID |-> cids[n]]]]
    /\ pc' = "done"
    /\ UNCHANGED <<args, ids, input_files, task, results,
                   sem, orphans, error, cids, fs, k, last, fs0, runs, codes>>

----------------------------------------------------------------------------
(* Initial states *)

NoError == [type |-> "none", path |-> <<>>, code |-> 0, stderr |-> <<>>]
NoManifest == [written |-> FALSE, entries |-> <<>>]

\* Sequences without repetition over a set, up to a length: what glob can
\* return for a directory (its order is arbitrary).
Listings(names, maxlen) ==
    UNION {{s \in [1..n -> names] : \A a, b \in 1..n : a # b => s[a] # s[b]}
            : n \in 0..maxlen}

\* The files main can touch in the metadata directory for a listing.
TargetNames(dirlist) == {JsonFileName(dirlist[n]) : n \in 1..Len(dirlist)}
FsNames(dirlist) ==
    TargetNames(dirlist) \cup {BakName(t) : t \in TargetNames(dirlist)}

\* File names of an input directory.
ArtPng == <<"a", "r", "t", ".", "p", "n", "g">>
Art1Png == <<"a", "r", "t", "1", ".", "p", "n", "g">>
Art5Png == <<"a", "r", "t", "5", ".", "p", "n", "g">>
Art1Gif == <<"a", "r", "t", "1", ".", "g", "i", "f">>
Art01Png == <<"a", "r", "t", "0", "1", ".", "p", "n", "g">>
Art0Png == <<"a", "r", "t", "0", ".", "p", "n", "g">>
BPng == <<"b", ".", "p", "n", "g">>
A1Mp4 == <<"a", "1", ".", "m", "p", "4">>
Art1Json == <<"a", "r", "t", "1", ".", "j", "s", "o", "n">>
ArtJson == <<"a", "r", "t", ".", "j", "s", "o", "n">>
ArtSidecar == <<"a", "r", "t", ".", "j", "s", "o", "n", "b", "a", "r">>

IdFiles == {ArtPng, Art1Png, Art5Png, Art1Gif, Art01Png, Art0Png, BPng, A1Mp4,
            Art1Json, ArtSidecar}
RunFiles == {ArtPng, Art1Png, Art1Gif, Art1Json, ArtJson}

\* A metadata document somebody edited by hand.
CustomDoc ==
    << [key |-> "name", val |-> JStr(<<"Mine">>)],
       [key |-> "royalty_percentage", val |-> JInt(<<"2">>)],
       [key |-> "image", val |-> JStr(<<"old">>)],
       [key |-> "artist", val |-> JStr(<<"me">>)] >>

\* Contents a file of the metadata directory may have before a run: absent,
\* not JSON, a JSON array, a hand-written JSON object.
InitialContents ==
    {Missing, Invalid, JsonFile("raw", "other", <<>>),
     JsonFile("raw", "object", CustomDoc)}

Royalties == {5, 10}

ArgSets(royalties) ==
    [file : BOOLEAN, metadata : BOOLEAN, overwrite : BOOLEAN, royalty : royalties]

\* --file names one file; --idir a directory.
ValidArgs(a, dirlist) == a.file => Len(dirlist) = 1

InitRun(a, dirlist, files) ==
    /\ args = a
    /\ input_files = Discover(a, dirlist)
    /\ fs = files
    /\ fs0 = files
    /\ runs = 1
    /\ codes = NoCodes
    /\ pc = "extract"
    /\ ids = <<>>
    /\ task = <<>>
    /\ results = <<>>
    /\ sem = SemaphoreLimit
    /\ orphans = 0
    /\ error = NoError
    /\ cids = <<>>
    /\ manifest = NoManifest
    /\ k = 0
    /\ last = NoStep

----------------------------------------------------------------------------
(* ID assignment alone, over every listing of a directory *)

InitIds ==
    \E dirlist \in Listings(IdFiles, MaxFiles) :
    \E a \in ArgSets({5}) :
        /\ ValidArgs(a, dirlist)
        /\ ~a.overwrite
        /\ InitRun(a, dirlist, [f \in {} |-> Missing])

NextIds == ExtractIds \/ AssignStep \/ SortStep

SpecIds == InitIds /\ [][NextIds]_vars

----------------------------------------------------------------------------
(* A manifest run over a directory of more files than the semaphore admits; *)
(* every subprocess ends by exiting.                                        *)

BatchFile(n) == DecStr(n) \o <<".", "j", "s", "o", "n">>
BatchListing == [n \in 1..MaxBatch |-> BatchFile(n)]

InitBatch ==
    InitRun([file |-> FALSE, metadata |-> FALSE, overwrite |-> FALSE, royalty |-> 5],
            BatchListing, [f \in {} |-> Missing])

NextBatch ==
    \/ ExtractIds \/ AssignStep \/ SortStep
    \/ StartBatch
    \/ Admit
    \/ \E i \in Running : \E rc \in ExitStatuses :
          \E out \in Stdouts(PathOf(i), rc) : Exit(i, rc, out)
    \/ ReturnCids
    \/ WriteManifest

SpecBatch == InitBatch /\ [][NextBatch]_vars

----------------------------------------------------------------------------
(* One run of main over a small directory and any metadata directory *)

MaxRunFiles == 3

\* Metadata directories a run may find: any content for each target, no
\* backups yet; without --metadata the directory is not used.
FileSystems(a, dirlist) ==
    IF a.metadata
    THEN {f \in [FsNames(dirlist) -> InitialContents] :
            \A t \in TargetNames(dirlist) : f[BakName(t)] = Missing}
    ELSE {[f \in {} |-> Missing]}

Init ==
    \E dirlist \in Listings(RunFiles, MaxRunFiles) :
    \E a \in ArgSets({5}) :
    \E files \in FileSystems(a, dirlist) :
        /\ ValidArgs(a, dirlist)
        /\ InitRun(a, dirlist, files)

Next ==
    \/ ExtractIds \/ AssignStep \/ SortStep
    \/ StartBatch
    \/ Admit
    \/ \E i \in Running : \E rc \in ReturnCodes :
          \E out \in Stdouts(PathOf(i), rc) : Exit(i, rc, out)
    \/ ReturnCids
    \/ MergeStep
    \/ WriteManifest

Spec == Init /\ [][Next]_vars

----------------------------------------------------------------------------
(* Repeated runs of main over the same directories *)

MaxRerunFiles == 1
MaxRuns == 2

RerunFiles == {ArtPng, Art1Png, Art1Gif, Art1Json}

InitRerun ==
    \E dirlist \in Listings(RerunFiles, MaxRerunFiles) :
    \E a \in ArgSets(Royalties) :
    \E files \in FileSystems(a, dirlist) :
        /\ ValidArgs(a, dirlist)
        /\ InitRun(a, dirlist, files)

\* main() is started again on the same input and metadata directories, with
\* the same --file/--idir and --metadata choice; --overwrite and
\* --royalty_percentage may differ.  The files on disk stay as they are.
Rerun ==
    /\ pc \in {"done", "aborted"}
    /\ runs < MaxRuns
    /\ \E a \in ArgSets(Royalties) :
          /\ a.file = args.file
          /\ a.metadata = args.metadata
          /\ args' = a
    /\ runs' = runs + 1
    /\ pc' = "extract"
    /\ ids' = <<>>
    /\ task' = <<>>
    /\ results' = <<>>
    /\ codes' = NoCodes
    /\ sem' = SemaphoreLimit
    /\ orphans' = 0
    /\ error' = NoError
    /\ cids' = <<>>
    /\ fs0' = fs
    /\ k' = 0
    /\ last' = NoStep
    /\ UNCHANGED <<input_files, fs, manifest>>

NextRerun == Next \/ Rerun

SpecRerun == InitRerun /\ [][NextRerun]_vars

----------------------------------------------------------------------------
(* Properties of ID assignment and sorting, under SpecIds *)

\* At pc = "sort" the lists ids and input_files are still in discovery order.
Positions == 1..Len(input_files)
ParsedId(n) == ExtractId(input_files[n])
HasNoDigit(f) == \A n \in 1..Len(f) : ~IsDigit(f[n])
ExplicitIds == {ParsedId(n) : n \in Positions} \ {0}
MaxExplicit == IF ExplicitIds = {} THEN 0
               ELSE CHOOSE m \in ExplicitIds : \A e \in ExplicitIds : e <= m
\* 0-based position of entry n among the entries that parsed to the sentinel.
SentinelRank(n) == Cardinality({m \in 1..(n - 1) : ParsedId(m) = 0})

\* C3: after ID assignment and sorting the zipped (ID, filename) sequence is
\* non-decreasing in ID and no two entries share an ID.
C3_SortedAndUnique ==
    pc = "cids" =>
        /\ \A n \in 1..(Len(ids) - 1) : ids[n] <= ids[n + 1]
        /\ \A a, b \in 1..Len(ids) : a # b => ids[a] # ids[b]

\* C4: every entry that parsed to the sentinel 0 receives
\* max(non-zero IDs) + 1 + k, k its 0-based position among the sentinel
\* entries; for art1.png, art.png, art5.png the IDs are 1, 6, 5.
C4_OffsetAmongSentinels ==
    pc = "sort" =>
        /\ \A n \in Positions :
              ParsedId(n) = 0 => ids[n] = MaxExplicit + 1 + SentinelRank(n)
        /\ input_files = <<Art1Png, ArtPng, Art5Png>> => ids = <<1, 6, 5>>

\* C5: a file name without digits parses to the sentinel 0 and is remapped
\* to an ID greater than every explicit ID of the batch and different from
\* the ID of every other entry.
C5_NoDigitRemapped ==
    /\ pc = "assign" =>
          \A n \in Positions : HasNoDigit(input_files[n]) => ids[n] = 0
    /\ pc = "sort" =>
          \A n \in Positions : HasNoDigit(input_files[n]) =>
              /\ ids[n] # 0
              /\ \A e \in ExplicitIds : ids[n] > e
              /\ \A m \in Positions : m # n => ids[m] # ids[n]

\* Two files without digits and one with an explicit ID have been assigned.
C5_Witness ==
    /\ pc = "sort"
    /\ Cardinality({n \in Positions : HasNoDigit(input_files[n])}) >= 2
    /\ ExplicitIds # {}

----------------------------------------------------------------------------
(* Properties of the CID batch *)

\* The identifier the tool computes for an input file.
CidFor(file) == Strip(ToolStdout(JoinPath(InputDir, file)))

\* C2: never more than 16 subprocess calls are outstanding; a call runs only
\* while its task holds one of the 16 slots, and a task waits while no slot
\* is free.
C2_AtMostSixteenOutstanding ==
    /\ Outstanding <= SemaphoreLimit
    /\ pc = "gather" =>
          /\ sem >= 0
          /\ Cardinality(Running) = SemaphoreLimit - sem

\* All 16 slots are taken while a further task waits.
C2_Witness ==
    /\ pc = "gather"
    /\ Cardinality(Running) = SemaphoreLimit
    /\ Waiting # {}

\* Every external call has exited with status 0.
AllSucceeded == DOMAIN codes = Tasks /\ \A i \in Tasks : codes[i] = 0

\* C1: when every external call succeeds, the list get_files_cids returns has one entry per file, entry i being
\* the CID of files[i], whatever the completion order; every (ID, CID) pair
\* main writes pairs ids[n] with the CID of input_files[n].
C1_Positional ==
    /\ pc = "gather" =>
          \A i \in Tasks : (task[i] = "done" /\ codes[i] = 0) =>
              results[i] = CidFor(input_files[i])
    /\ pc \in {"write", "done"} => Len(cids) = Len(input_files)
    /\ (pc \in {"write", "done"} /\ AllSucceeded) =>
          \A i \in 1..Len(input_files) : cids[i] = CidFor(input_files[i])
    /\ (manifest.written /\ AllSucceeded) =>
          /\ Len(manifest.entries) = Len(input_files)
          /\ \A n \in 1..Len(input_files) :
                manifest.entries[n] = [ID |-> ids[n], CID |-> CidFor(input_files[n])]
    /\ (last.n > 0 /\ pc # "aborted" /\ AllSucceeded) =>
          /\ last.file = input_files[last.n]
          /\ last.id = ids[last.n]
          /\ last.cid = CidFor(last.file)
          /\ GetKey(fs[last.path].doc, "image") = JStr(IpfsUrl(CidFor(last.file)))

\* The second subprocess has completed before the first.
C1_Witness ==
    /\ pc = "gather"
    /\ Len(task) >= 2
    /\ task[1] = "running"
    /\ task[2] = "done"
    /\ codes[2] = 0

\* C8: a non-zero exit status of one call aborts the batch with a
\* RuntimeError that names the path and the stderr text; no call is started
\* again and the run writes no manifest, metadata or .bak file.
C8_FailureIsFatal ==
    \A i \in DOMAIN codes : codes[i] > 0 =>
        /\ pc = "aborted"
        /\ error = [type |-> "RuntimeError", path |-> PathOf(i), code |-> codes[i],
                    stderr |-> ToolStderr(PathOf(i))]
        /\ task[i] = "failed"
        /\ Running = {}
        /\ cids = <<>>
        /\ fs = fs0
        /\ manifest = NoManifest
        /\ last = NoStep

\* A call of a metadata run over existing metadata has failed while another
\* had completed.
C8_Witness ==
    /\ \E i \in DOMAIN codes : codes[i] > 0
    /\ Len(task) >= 2
    /\ args.metadata
    /\ \E t \in DOMAIN fs : fs[t].kind = "json"

----------------------------------------------------------------------------
(* Properties of the metadata merge *)

CidFields == {"image", "animation_url", "royalty_percentage"}

\* The items of a document outside the three CID fields, in order.
OtherItems(doc) == SelectSeq(doc, LAMBDA item : item.key \notin CidFields)

\* The latest loop iteration ran to its end (it did not raise).
StepDone == last.n > 0 /\ ~(pc = "aborted" /\ error.type = "TypeError")

HasCidFields(content, cid, royalty) ==
    /\ content.kind = "json"
    /\ content.top = "object"
    /\ CidFields \subseteq Keys(content.doc)
    /\ GetKey(content.doc, "image") = JStr(IpfsUrl(cid))
    /\ GetKey(content.doc, "animation_url") = JStr(IpfsUrl(cid))
    /\ GetKey(content.doc, "royalty_percentage") = JInt(DecStr(royalty))

\* C6: without --overwrite, on an existing file that parses as JSON, a
\* merge step changes only image, animation_url and royalty_percentage and
\* creates no .bak; applied to a file that a step with the same CID and
\* royalty wrote, it leaves the file exactly as it was.
C6_UpdateInPlace ==
    (last.n > 0 /\ ~args.overwrite /\ last.pre.kind = "json") =>
        /\ fs[BakName(last.path)] = last.preBak
        /\ ~StepDone => fs[last.path] = last.pre
        /\ StepDone =>
              /\ OtherItems(fs[last.path].doc) = OtherItems(last.pre.doc)
              /\ Keys(last.pre.doc) \subseteq Keys(fs[last.path].doc)
              /\ (last.pre.fmt = "indent4"
                  /\ HasCidFields(last.pre, last.cid, args.royalty))
                    => fs[last.path] = last.pre

\* The second of two runs with the same royalty and no --overwrite has
\* merged into the file the first run wrote for the same input file.
C6_Witness ==
    /\ runs = 2
    /\ StepDone
    /\ ~args.overwrite
    /\ last.pre.fmt = "indent4"
    /\ HasCidFields(last.pre, last.cid, args.royalty)
    /\ "artist" \in Keys(last.pre.doc)
    /\ fs[last.path] = last.pre

\* C7: when a step regenerates a file from the template and a file existed
\* at the target path, the .bak file afterwards holds the content the target
\* had before the step's write; when no file existed, no .bak is created.
C7_BackupLaw ==
    (StepDone /\ last.branch = "create") =>
        /\ last.pre.kind # "missing" => fs[BakName(last.path)] = last.pre
        /\ last.pre.kind = "missing" => fs[BakName(last.path)] = last.preBak
        /\ fs[last.path] = Dump(UpdateCidFields(Template(last.id, last.cid),
                                                last.cid, args.royalty))

\* A file was regenerated over an existing one and an older backup replaced.
C7_Witness ==
    /\ StepDone
    /\ last.branch = "create"
    /\ last.pre.kind # "missing"
    /\ last.preBak.kind # "missing"
    /\ last.preBak # last.pre
    /\ fs[last.path] # last.pre
    /\ fs[BakName(last.path)] = last.pre

\* C9: the step updates in place exactly when --overwrite is absent and the
\* existing file parses as JSON, and creates from the template otherwise;
\* both branches end by persisting a document with the CID fields set.
C9_StateMachine ==
    last.n > 0 =>
        /\ (last.branch = "update") <=> (~args.overwrite /\ last.pre.kind = "json")
        /\ (last.branch = "create") <=> (args.overwrite \/ last.pre.kind # "json")
        /\ pc # "aborted"
        /\ HasCidFields(fs[last.path], last.cid, args.royalty)

\* C10: no two input files of a metadata run map to the same target path,
\* so no step writes a path that an earlier step of the run wrote.
C10_OneWriterPerFile ==
    (args.metadata /\ pc \in {"cids", "gather", "write", "done"}) =>
        /\ \A a, b \in 1..Len(input_files) :
              a # b => JsonFileName(input_files[a]) # JsonFileName(input_files[b])
        /\ \A m \in 1..(last.n - 1) : JsonFileName(input_files[m]) # last.path

====
